---- MODULE Spec2Model ----
(***************************************************************************)
(* krbn::components_manager (console_user_server).                         *)
(*                                                                         *)
(* The object owns a serial task queue, three long-lived monitors, the     *)
(* receiver, the grabber client and six child components.  Collaborators   *)
(* raise notifications on their own threads; every notification handler    *)
(* pushes one task to the queue and the queue worker runs the tasks one    *)
(* at a time in FIFO order.  One action of this module is one notification *)
(* handler (a push), one whole task run by the worker, or one step of the  *)
(* destructor.                                                             *)
(*                                                                         *)
(* A pointer member is 0 when it is nullptr and otherwise the identity of  *)
(* the instance it owns.  heap is the set of instances that have been      *)
(* constructed and not yet destroyed.                                      *)
(***************************************************************************)
EXTENDS Integers, Sequences, FiniteSets, TLC

\* ---------------------------------------------------------------- bounds
\* Notifications raised in one run, and tasks waiting in the queue at once.
MaxEvents == 5
MaxQueue == 2

\* ------------------------------------------------------ program constants
\* getuid(): the uid this process runs as; Uids are the uids a session may have.
SelfUid == 501
Uids == {SelfUid, SelfUid + 1}

EventViewerDot == "org.pqrs.Karabiner.EventViewer"
EventViewerDash == "org.pqrs.Karabiner-EventViewer"
OtherBundle == "com.apple.Terminal"
Bundles == {EventViewerDot, EventViewerDash, OtherBundle}

Preferences == {"P1", "P2"}
InputSources == {"en", "ja"}
AlertSets == {<<>>, <<"alert1">>}

\* The six child components, in the order stop_child_components resets them.
ChildMembers ==
  <<"menu_process_manager_", "updater_process_manager_",
    "system_preferences_monitor_", "frontmost_application_observer_",
    "input_source_observer_", "configuration_monitor_">>

ChildSet == {ChildMembers[i] : i \in 1..Len(ChildMembers)}

VARIABLES
  queue_,                          \* tasks pushed and not yet run (FIFO)
  phase,                           \* "running", "terminating", "terminated",
                                   \* "destroyed" or "crashed"
  version_monitor_,
  grabber_alerts_monitor_,
  console_user_id_monitor_,
  receiver_,
  grabber_client_,
  configuration_monitor_,
  menu_process_manager_,
  updater_process_manager_,
  system_preferences_monitor_,
  frontmost_application_observer_,
  input_source_observer_,
  heap,                            \* live instances, as <<member, id>>
  next_id,                         \* identity of the next instance constructed
  receiver_cond,                   \* what receiver_ was last told / reported
  client_cond,                     \* what grabber_client_ was last told / reported
  last_uid,                        \* uid of the last session task run (0: none)
  last_task,                       \* the task the worker ran last
  steps,                           \* what the last action did, in code order
  forwards,                        \* every forward call made on a client, in order
  pushed,                          \* tasks handed to the queue so far
  raised                           \* notifications raised so far

vars ==
  <<queue_, phase, version_monitor_, grabber_alerts_monitor_,
    console_user_id_monitor_, receiver_, grabber_client_,
    configuration_monitor_, menu_process_manager_, updater_process_manager_,
    system_preferences_monitor_, frontmost_application_observer_,
    input_source_observer_, heap, next_id, receiver_cond, client_cond,
    last_uid, last_task, steps, forwards, pushed, raised>>

\* ------------------------------------------------------------- the object
\* The members and the bookkeeping as one record, so that the member
\* functions below compose in the order the code calls them.
Me ==
  [ queue_ |-> queue_,
    phase |-> phase,
    version_monitor_ |-> version_monitor_,
    grabber_alerts_monitor_ |-> grabber_alerts_monitor_,
    console_user_id_monitor_ |-> console_user_id_monitor_,
    receiver_ |-> receiver_,
    grabber_client_ |-> grabber_client_,
    configuration_monitor_ |-> configuration_monitor_,
    menu_process_manager_ |-> menu_process_manager_,
    updater_process_manager_ |-> updater_process_manager_,
    system_preferences_monitor_ |-> system_preferences_monitor_,
    frontmost_application_observer_ |-> frontmost_application_observer_,
    input_source_observer_ |-> input_source_observer_,
    heap |-> heap,
    next_id |-> next_id,
    receiver_cond |-> receiver_cond,
    client_cond |-> client_cond,
    last_uid |-> last_uid,
    last_task |-> last_task,
    thread |-> "worker",
    steps |-> <<>>,
    forwards |-> forwards,
    pushed |-> pushed ]

\* The object before the constructor body has run: every pointer is nullptr.
Blank ==
  [ queue_ |-> <<>>,
    phase |-> "running",
    version_monitor_ |-> 0,
    grabber_alerts_monitor_ |-> 0,
    console_user_id_monitor_ |-> 0,
    receiver_ |-> 0,
    grabber_client_ |-> 0,
    configuration_monitor_ |-> 0,
    menu_process_manager_ |-> 0,
    updater_process_manager_ |-> 0,
    system_preferences_monitor_ |-> 0,
    frontmost_application_observer_ |-> 0,
    input_source_observer_ |-> 0,
    heap |-> {},
    next_id |-> 1,
    receiver_cond |-> "none",
    client_cond |-> "none",
    last_uid |-> 0,
    last_task |-> [kind |-> "none", src |-> 0, arg |-> "", seq |-> 0],
    thread |-> "constructor",
    steps |-> <<>>,
    forwards |-> <<>>,
    pushed |-> 0 ]

\* One step of the running thread on a component, appended to the record of
\* what the current action did.
Did(s, op, obj, id, arg) ==
  [s EXCEPT !.steps =
     Append(@, [thread |-> s.thread, op |-> op, obj |-> obj, id |-> id, arg |-> arg])]

\* member = nullptr: the instance the member owned, if any, is destroyed.
Reset(s, member) ==
  IF s[member] = 0
  THEN s
  ELSE Did([s EXCEPT ![member] = 0, !.heap = @ \ {<<member, s[member]>>}],
           "destroy", member, s[member], "")

\* Mutant of Make: the new instance is stored but the instance the member
\* owned before is never destroyed (a raw owning pointer overwritten).
Make_leaking(s, member) ==
  LET id == s.next_id
      made == Did([s EXCEPT !.heap = @ \cup {<<member, id>>}, !.next_id = id + 1],
                  "create", member, id, "")
  IN [made EXCEPT ![member] = id]

\* member = std::make_unique<T>() / std::make_shared<T>(): the new instance
\* is constructed first, then the move assignment destroys the one the
\* member owned before.
Make(s, member) ==
  LET id == s.next_id
      made == Did([s EXCEPT !.heap = @ \cup {<<member, id>>}, !.next_id = id + 1],
                  "create", member, id, "")
      old == made[member]
      freed == IF old = 0
               THEN made
               ELSE Did([made EXCEPT !.heap = @ \ {<<member, old>>}],
                        "destroy", member, old, "")
  IN [freed EXCEPT ![member] = id]

\* A call on the instance a member owns (start, async_..., forward).
Call(s, op, member, arg) == Did(s, op, member, s[member], arg)

\* A call of a free function (application_launcher, filesystem).
Effect(s, op, arg) == Did(s, op, "", 0, arg)

\* The same object with its next steps attributed to the given thread.
On(s, thread) == [s EXCEPT !.thread = thread]

\* ------------------------------------------------------------------ queue
\* thread_utility::queue: push_back appends a task unless the queue has been
\* terminated; the single worker runs the tasks one at a time from the front;
\* terminate runs what is queued to completion and then refuses pushes.
\* seq is the position of the task in the order of submission; push_back
\* stamps it.
Task(kind, src, arg) == [kind |-> kind, src |-> src, arg |-> arg, seq |-> 0]

push_back(s, task) ==
  IF s.phase = "terminated"
  THEN s
  ELSE Did([s EXCEPT !.queue_ = Append(@, [task EXCEPT !.seq = s.pushed + 1]),
                     !.pushed = @ + 1],
           "push_back", "queue_", task.src, task.kind)

\* ------------------------------------------------------- member functions
RECURSIVE ResetAll(_, _, _)
ResetAll(s, members, i) ==
  IF i > Len(members) THEN s ELSE ResetAll(Reset(s, members[i]), members, i + 1)

\* Mutant of stop_child_components: input_source_observer_ is not reset.
stop_child_components_partial(s) ==
  ResetAll(s, <<"menu_process_manager_", "updater_process_manager_",
                "system_preferences_monitor_", "frontmost_application_observer_",
                "configuration_monitor_">>, 1)

stop_child_components(s) == ResetAll(s, ChildMembers, 1)

start_child_components(s) ==
  LET s1 == Make(s, "configuration_monitor_")
      s2 == Make(s1, "menu_process_manager_")
      s3 == Make(s2, "updater_process_manager_")
      s4 == Call(Make(s3, "system_preferences_monitor_"),
                 "async_start", "system_preferences_monitor_", "")
      s5 == Call(Make(s4, "frontmost_application_observer_"),
                 "async_start", "frontmost_application_observer_", "")
      s6 == Call(Make(s5, "input_source_observer_"),
                 "async_start", "input_source_observer_", "")
  IN Call(s6, "async_start", "configuration_monitor_", "")

stop_grabber_client(s) ==
  LET s1 == Reset(s, "grabber_client_")
  IN stop_child_components([s1 EXCEPT !.client_cond = "none"])

start_grabber_client(s) ==
  IF s.grabber_client_ # 0
  THEN s
  ELSE LET s1 == Make(s, "grabber_client_")
       IN [Call(s1, "async_start", "grabber_client_", "")
             EXCEPT !.client_cond = "started"]

start_grabber_alerts_monitor(s) ==
  IF s.grabber_alerts_monitor_ # 0
  THEN s
  ELSE Call(Make(s, "grabber_alerts_monitor_"),
            "async_start", "grabber_alerts_monitor_", "")

\* if (version_monitor_) version_monitor_->async_manual_check();
manual_check(s) ==
  IF s.version_monitor_ # 0
  THEN Call(s, "async_manual_check", "version_monitor_", "")
  ELSE s

\* The constructor body, run by the constructing thread on the blank object.
constructor(s) ==
  LET s1 == Did(s, "create", "queue_", 0, "")
      s2 == Make(s1, "version_monitor_")
      s3 == start_grabber_alerts_monitor(s2)
      s4 == Make(s3, "console_user_id_monitor_")
  IN Call(s4, "async_start", "console_user_id_monitor_", "")

\* ------------------------------------------------------------------ tasks
\* The closures pushed to the queue, as the worker runs them.

\* Mutant of console_user_id_changed_task: when a receiver already exists, the
\* self-owned branch also starts the grabber client at once.
console_user_id_changed_task_eager(s, uid) ==
  LET s1 == manual_check(s)
      s2 == Effect(s1, "create_directory", "0700")
      s3 == [s2 EXCEPT !.last_uid = uid]
  IN IF uid # SelfUid
     THEN stop_grabber_client(s3)
     ELSE LET s4 == Make(s3, "receiver_")
              s5 == [Call(s4, "start", "receiver_", "") EXCEPT !.receiver_cond = "started"]
          IN IF s.receiver_ # 0 THEN start_grabber_client(s5) ELSE s5

console_user_id_changed_task(s, uid) ==
  LET s1 == manual_check(s)
      s2 == Effect(s1, "create_directory", "0700")
      s3 == [s2 EXCEPT !.last_uid = uid]
  IN IF uid # SelfUid
     THEN stop_grabber_client(s3)
     ELSE LET s4 == Make(s3, "receiver_")
          IN [Call(s4, "start", "receiver_", "") EXCEPT !.receiver_cond = "started"]

\* Mutant of receiver_bound_task: stop_grabber_client is not called first.
receiver_bound_task_keep(s) == start_grabber_client(s)

receiver_bound_task(s) == start_grabber_client(stop_grabber_client(s))

\* Mutant of receiver_bind_failed_task: the task binds again with a new
\* receiver.
receiver_bind_failed_task_retry(s) ==
  LET s1 == Make(stop_grabber_client(s), "receiver_")
  IN [Call(s1, "start", "receiver_", "") EXCEPT !.receiver_cond = "started"]

receiver_bind_failed_task(s) == stop_grabber_client(s)

receiver_closed_task(s) == stop_grabber_client(s)

\* Mutant of grabber_client_connected_task: start_child_components is not
\* called.
grabber_client_connected_task_no_start(s) ==
  LET s1 == manual_check(s)
      s2 == IF s1.grabber_client_ # 0
            THEN Call(s1, "async_connect_console_user_server", "grabber_client_", "")
            ELSE s1
  IN stop_child_components(s2)

grabber_client_connected_task(s) ==
  LET s1 == manual_check(s)
      s2 == IF s1.grabber_client_ # 0
            THEN Call(s1, "async_connect_console_user_server", "grabber_client_", "")
            ELSE s1
  IN start_child_components(stop_child_components(s2))

grabber_client_connect_failed_task(s) == stop_child_components(manual_check(s))

grabber_client_closed_task(s) == stop_child_components(manual_check(s))

\* A forward call on the client, also kept in the log of all forward calls.
Forward(s, op, arg) ==
  [Call(s, op, "grabber_client_", arg)
     EXCEPT !.forwards = Append(@, [op |-> op, client |-> s.grabber_client_,
                                    cond |-> s.client_cond, arg |-> arg,
                                    seq |-> s.last_task.seq])]

\* Mutant of system_preferences_changed_task: no test of grabber_client_.
system_preferences_changed_task_unchecked(s, system_preferences) ==
  Forward(s, "async_system_preferences_updated", system_preferences)

system_preferences_changed_task(s, system_preferences) ==
  IF s.grabber_client_ # 0
  THEN Forward(s, "async_system_preferences_updated", system_preferences)
  ELSE s

\* Mutant of frontmost_application_changed_task: only one of the two
\* identifiers is filtered.
frontmost_application_changed_task_one_id(s, bundle_identifier) ==
  IF bundle_identifier = EventViewerDot
  THEN s
  ELSE IF s.grabber_client_ # 0
       THEN Forward(s, "async_frontmost_application_changed", bundle_identifier)
       ELSE s

frontmost_application_changed_task(s, bundle_identifier) ==
  IF bundle_identifier = EventViewerDot \/ bundle_identifier = EventViewerDash
  THEN s
  ELSE IF s.grabber_client_ # 0
       THEN Forward(s, "async_frontmost_application_changed", bundle_identifier)
       ELSE s

input_source_changed_task(s, input_source_identifiers) ==
  IF s.grabber_client_ # 0
  THEN Forward(s, "async_input_source_changed", input_source_identifiers)
  ELSE s

\* Mutant of alerts_changed_task: no test of alerts.empty().
alerts_changed_task_always(s, alerts) ==
  Effect(Effect(s, "info", "karabiner_grabber_alerts.json is updated."),
         "launch_preferences", "")

alerts_changed_task(s, alerts) ==
  LET s1 == Effect(s, "info", "karabiner_grabber_alerts.json is updated.")
  IN IF alerts # <<>> THEN Effect(s1, "launch_preferences", "") ELSE s1

\* The task the destructor pushes.
teardown_task(s) ==
  LET s1 == stop_grabber_client(s)
      s2 == Reset(s1, "console_user_id_monitor_")
      s3 == [Reset(s2, "receiver_") EXCEPT !.receiver_cond = "none"]
      s4 == Reset(s3, "grabber_alerts_monitor_")
  IN Reset(s4, "version_monitor_")

\* ------------------------------------------------- notification handlers
\* The lambdas connected to the collaborators' signals.  They run on the
\* thread of the collaborator that raises the signal; src is the instance
\* that raises it.

console_user_id_changed(s, src, uid) ==
  push_back(s, Task("console_user_id_changed", src, uid))

\* Mutant of receiver_bound: the handler runs the body on the raising thread.
receiver_bound_inline(s, src) == start_grabber_client(stop_grabber_client(s))

receiver_bound(s, src) == push_back(s, Task("receiver_bound", src, ""))

receiver_bind_failed(s, src) == push_back(s, Task("receiver_bind_failed", src, ""))

receiver_closed(s, src) == push_back(s, Task("receiver_closed", src, ""))

grabber_client_connected(s, src) == push_back(s, Task("connected", src, ""))

grabber_client_connect_failed(s, src) == push_back(s, Task("connect_failed", src, ""))

grabber_client_closed(s, src) == push_back(s, Task("closed", src, ""))

system_preferences_changed(s, src, system_preferences) ==
  push_back(s, Task("system_preferences_changed", src, system_preferences))

frontmost_application_changed(s, src, bundle_identifier) ==
  push_back(s, Task("frontmost_application_changed", src, bundle_identifier))

\* Mutant of input_source_changed: the handler forwards on the raising thread
\* instead of pushing a task.
input_source_changed_inline(s, src, input_source_identifiers) ==
  IF s.grabber_client_ # 0
  THEN [Call(s, "async_input_source_changed", "grabber_client_", input_source_identifiers)
          EXCEPT !.pushed = @ + 1,
                 !.forwards = Append(@, [op |-> "async_input_source_changed",
                                         client |-> s.grabber_client_,
                                         cond |-> s.client_cond,
                                         arg |-> input_source_identifiers,
                                         seq |-> s.pushed + 1])]
  ELSE [s EXCEPT !.pushed = @ + 1]

input_source_changed(s, src, input_source_identifiers) ==
  push_back(s, Task("input_source_changed", src, input_source_identifiers))

alerts_changed(s, src, alerts) == push_back(s, Task("alerts_changed", src, alerts))

\* The destructor up to the call of terminate: it pushes the teardown task.
destructor(s) ==
  [push_back(s, Task("teardown", 0, "")) EXCEPT !.phase = "terminating"]

\* queue_->terminate() returns once the queue is drained; queue_ = nullptr.
terminate(s) ==
  Did([s EXCEPT !.phase = "terminated"], "destroy", "queue_", 0, "")

\* The members in the reverse of their order of declaration, queue_ apart:
\* the order in which the end of the destructor destroys what they still own.
MembersReversed ==
  <<"input_source_observer_", "frontmost_application_observer_",
    "system_preferences_monitor_", "updater_process_manager_",
    "menu_process_manager_", "configuration_monitor_", "grabber_client_",
    "receiver_", "console_user_id_monitor_", "grabber_alerts_monitor_",
    "version_monitor_">>

\* The end of the destructor: after its body the members are destroyed, and
\* with them any instance a late task left in them.
destroy_members(s) ==
  [ResetAll(s, MembersReversed, 1)
     EXCEPT !.phase = "destroyed", !.receiver_cond = "none", !.client_cond = "none"]

\* ------------------------------------------------------------- the worker
ReceiverKinds == {"receiver_bound", "receiver_bind_failed", "receiver_closed"}
ClientKinds == {"connected", "connect_failed", "closed"}
ObserverKinds ==
  {"system_preferences_changed", "frontmost_application_changed", "input_source_changed"}

\* What the instance a member owns has reported, as far as the tasks run so
\* far have delivered it: a notification counts for receiver_ or
\* grabber_client_ when the instance that raised it is the one the member
\* owns when its task runs.
Delivered(s, t) ==
  IF t.kind \in ReceiverKinds /\ t.src = s.receiver_
  THEN [s EXCEPT !.receiver_cond = t.kind]
  ELSE IF t.kind \in ClientKinds /\ t.src = s.grabber_client_
       THEN [s EXCEPT !.client_cond = t.kind]
       ELSE s

RunTask(s, t) ==
  CASE t.kind = "console_user_id_changed" -> console_user_id_changed_task(s, t.arg)
    [] t.kind = "receiver_bound" -> receiver_bound_task(s)
    [] t.kind = "receiver_bind_failed" -> receiver_bind_failed_task(s)
    [] t.kind = "receiver_closed" -> receiver_closed_task(s)
    [] t.kind = "connected" -> grabber_client_connected_task(s)
    [] t.kind = "connect_failed" -> grabber_client_connect_failed_task(s)
    [] t.kind = "closed" -> grabber_client_closed_task(s)
    [] t.kind = "system_preferences_changed" -> system_preferences_changed_task(s, t.arg)
    [] t.kind = "frontmost_application_changed" -> frontmost_application_changed_task(s, t.arg)
    [] t.kind = "input_source_changed" -> input_source_changed_task(s, t.arg)
    [] t.kind = "alerts_changed" -> alerts_changed_task(s, t.arg)
    [] t.kind = "teardown" -> teardown_task(s)

\* The worker pops the front task and runs it to completion.
worker_step(s) ==
  LET t == Head(s.queue_)
  IN RunTask(Delivered([s EXCEPT !.queue_ = Tail(@), !.last_task = t], t), t)

\* ---------------------------------------------------------------- actions
Install(r) ==
  /\ queue_' = r.queue_
  /\ phase' = r.phase
  /\ version_monitor_' = r.version_monitor_
  /\ grabber_alerts_monitor_' = r.grabber_alerts_monitor_
  /\ console_user_id_monitor_' = r.console_user_id_monitor_
  /\ receiver_' = r.receiver_
  /\ grabber_client_' = r.grabber_client_
  /\ configuration_monitor_' = r.configuration_monitor_
  /\ menu_process_manager_' = r.menu_process_manager_
  /\ updater_process_manager_' = r.updater_process_manager_
  /\ system_preferences_monitor_' = r.system_preferences_monitor_
  /\ frontmost_application_observer_' = r.frontmost_application_observer_
  /\ input_source_observer_' = r.input_source_observer_
  /\ heap' = r.heap
  /\ next_id' = r.next_id
  /\ receiver_cond' = r.receiver_cond
  /\ client_cond' = r.client_cond
  /\ last_uid' = r.last_uid
  /\ last_task' = r.last_task
  /\ steps' = r.steps
  /\ forwards' = r.forwards
  /\ pushed' = r.pushed

\* A live instance of the member raises a signal: the guard of every
\* notification action.  Signals are raised while the object is alive.
CanRaise(member, src) ==
  /\ <<member, src>> \in heap
  /\ phase \in {"running", "terminating"}
  /\ Len(queue_) < MaxQueue
  /\ raised < MaxEvents
  /\ raised' = raised + 1

Live(member) == {x[2] : x \in {y \in heap : y[1] = member}}

Init ==
  LET r == constructor(Blank)
  IN /\ queue_ = r.queue_
     /\ phase = r.phase
     /\ version_monitor_ = r.version_monitor_
     /\ grabber_alerts_monitor_ = r.grabber_alerts_monitor_
     /\ console_user_id_monitor_ = r.console_user_id_monitor_
     /\ receiver_ = r.receiver_
     /\ grabber_client_ = r.grabber_client_
     /\ configuration_monitor_ = r.configuration_monitor_
     /\ menu_process_manager_ = r.menu_process_manager_
     /\ updater_process_manager_ = r.updater_process_manager_
     /\ system_preferences_monitor_ = r.system_preferences_monitor_
     /\ frontmost_application_observer_ = r.frontmost_application_observer_
     /\ input_source_observer_ = r.input_source_observer_
     /\ heap = r.heap
     /\ next_id = r.next_id
     /\ receiver_cond = r.receiver_cond
     /\ client_cond = r.client_cond
     /\ last_uid = r.last_uid
     /\ last_task = r.last_task
     /\ steps = r.steps
     /\ forwards = r.forwards
     /\ pushed = r.pushed
     /\ raised = 0

SessionUserChanges ==
  \E src \in Live("console_user_id_monitor_"), uid \in Uids :
    /\ CanRaise("console_user_id_monitor_", src)
    /\ Install(console_user_id_changed(On(Me, "collaborator"), src, uid))

ReceiverBound ==
  \E src \in Live("receiver_") :
    /\ CanRaise("receiver_", src)
    /\ Install(receiver_bound(On(Me, "collaborator"), src))

ReceiverBindFailed ==
  \E src \in Live("receiver_") :
    /\ CanRaise("receiver_", src)
    /\ Install(receiver_bind_failed(On(Me, "collaborator"), src))

ReceiverClosed ==
  \E src \in Live("receiver_") :
    /\ CanRaise("receiver_", src)
    /\ Install(receiver_closed(On(Me, "collaborator"), src))

ClientConnected ==
  \E src \in Live("grabber_client_") :
    /\ CanRaise("grabber_client_", src)
    /\ Install(grabber_client_connected(On(Me, "collaborator"), src))

ClientConnectFailed ==
  \E src \in Live("grabber_client_") :
    /\ CanRaise("grabber_client_", src)
    /\ Install(grabber_client_connect_failed(On(Me, "collaborator"), src))

ClientClosed ==
  \E src \in Live("grabber_client_") :
    /\ CanRaise("grabber_client_", src)
    /\ Install(grabber_client_closed(On(Me, "collaborator"), src))

SystemPreferencesChanged ==
  \E src \in Live("system_preferences_monitor_"), p \in Preferences :
    /\ CanRaise("system_preferences_monitor_", src)
    /\ Install(system_preferences_changed(On(Me, "collaborator"), src, p))

FrontmostApplicationChanged ==
  \E src \in Live("frontmost_application_observer_"), b \in Bundles :
    /\ CanRaise("frontmost_application_observer_", src)
    /\ Install(frontmost_application_changed(On(Me, "collaborator"), src, b))

InputSourceChanged ==
  \E src \in Live("input_source_observer_"), i \in InputSources :
    /\ CanRaise("input_source_observer_", src)
    /\ Install(input_source_changed(On(Me, "collaborator"), src, i))

AlertsChanged ==
  \E src \in Live("grabber_alerts_monitor_"), a \in AlertSets :
    /\ CanRaise("grabber_alerts_monitor_", src)
    /\ Install(alerts_changed(On(Me, "collaborator"), src, a))

Worker ==
  /\ phase \in {"running", "terminating"}
  /\ queue_ # <<>>
  /\ Install(worker_step(On(Me, "worker")))
  /\ UNCHANGED raised

Destructor ==
  /\ phase = "running"
  /\ Install(destructor(On(Me, "destructor")))
  /\ UNCHANGED raised

Terminate ==
  /\ phase = "terminating"
  /\ queue_ = <<>>
  /\ Install(terminate(On(Me, "destructor")))
  /\ UNCHANGED raised

DestroyMembers ==
  /\ phase = "terminated"
  /\ Install(destroy_members(On(Me, "destructor")))
  /\ UNCHANGED raised

\* An instance that a late task left alive raises a signal after the body of
\* the destructor has set queue_ to nullptr: its handler calls push_back
\* through the null pointer, which is undefined; the call either has no
\* effect or ends the process.
LateNotification ==
  \E x \in heap, outcome \in {"terminated", "crashed"} :
    /\ phase = "terminated"
    /\ raised < MaxEvents
    /\ raised' = raised + 1
    /\ phase' = outcome
    /\ steps' = <<[thread |-> "collaborator", op |-> "push_back", obj |-> "queue_",
                   id |-> x[2], arg |-> "nullptr"]>>
    /\ UNCHANGED <<queue_, version_monitor_, grabber_alerts_monitor_,
                   console_user_id_monitor_, receiver_, grabber_client_,
                   configuration_monitor_, menu_process_manager_,
                   updater_process_manager_, system_preferences_monitor_,
                   frontmost_application_observer_, input_source_observer_, heap,
                   next_id, receiver_cond, client_cond, last_uid, last_task,
                   forwards, pushed>>

Next ==
  \/ SessionUserChanges
  \/ ReceiverBound
  \/ ReceiverBindFailed
  \/ ReceiverClosed
  \/ ClientConnected
  \/ ClientConnectFailed
  \/ ClientClosed
  \/ SystemPreferencesChanged
  \/ FrontmostApplicationChanged
  \/ InputSourceChanged
  \/ AlertsChanged
  \/ Worker
  \/ Destructor
  \/ Terminate
  \/ DestroyMembers
  \/ LateNotification

Spec == Init /\ [][Next]_vars

\* What every step of the worker, and no other step, does to the queue: the
\* front task is popped and becomes the task run last.
TaskPopped ==
  /\ phase \in {"running", "terminating"}
  /\ queue_ # <<>>
  /\ queue_' = Tail(queue_)
  /\ last_task' = Head(queue_)

\* The worker thread of the queue runs a task whenever one is queued.
FairSpec == Spec /\ WF_<<queue_, last_task>>(TaskPopped)

\* ------------------------------------------------------------- vocabulary
\* The child components that are present (their member is not nullptr).
Present == {m \in ChildSet : Me[m] # 0}

ChildGroupPresent == Present = ChildSet
ChildGroupAbsent == Present = {}

\* The client is connected: grabber_client_ owns an instance and the last
\* notification delivered from that instance is connected().
ClientIsConnected == grabber_client_ # 0 /\ client_cond = "connected"

Active ==
  /\ receiver_ # 0
  /\ receiver_cond = "receiver_bound"
  /\ ClientIsConnected
  /\ ChildGroupPresent

\* The step is the worker running the task at the front of the queue, and
\* that task is of the given kind.
WorkerRuns(kind) ==
  /\ phase \in {"running", "terminating"}
  /\ queue_ # <<>>
  /\ Head(queue_).kind = kind
  /\ queue_' = Tail(queue_)
  /\ last_task' = Head(queue_)

Steps == DOMAIN steps

\* ----------------------------------------------------------------- claims

\* C1: between two queue tasks, the Child Group is present if and only if a
\* Client Instance exists and is in its connected condition.
C1_ChildGroupIffClientConnected == (Present # {}) <=> ClientIsConnected

\* C2: between two queue tasks the six child components are either all
\* present or all absent.
C2_ChildGroupAllOrNothing == ChildGroupPresent \/ ChildGroupAbsent

\* C2 witness: a connected() task has just built the whole Child Group.
C2_Witness ==
  /\ ChildGroupPresent
  /\ last_task.kind = "connected"
  /\ \E i \in Steps : steps[i].op = "create" /\ steps[i].obj = "input_source_observer_"

\* C3: at most one receiver instance and at most one grabber client instance
\* are alive in any state.
C3_AtMostOneLive ==
  /\ Cardinality(Live("receiver_")) <= 1
  /\ Cardinality(Live("grabber_client_")) <= 1

\* C3 witness: a task has just created a receiver in place of an earlier one,
\* which it destroyed, while a client created after a bound() is alive.
C3_Witness ==
  /\ \E i, j \in Steps :
       /\ steps[i].op = "create" /\ steps[i].obj = "receiver_"
       /\ steps[j].op = "destroy" /\ steps[j].obj = "receiver_"
       /\ steps[i].id # steps[j].id
  /\ Cardinality(Live("receiver_")) = 1
  /\ Cardinality(Live("grabber_client_")) = 1

\* C4: while the last session task run reported a uid other than getuid(),
\* the Client Instance and the Child Group are absent.
C4_MismatchForcesAbsent ==
  (last_uid # 0 /\ last_uid # SelfUid) => (grabber_client_ = 0 /\ ChildGroupAbsent)

\* C5: within one task, the client is never destroyed before a child
\* component, nor the receiver before the client.
C5_TeardownOrder ==
  \A i, j \in Steps :
    (i < j /\ steps[i].op = "destroy" /\ steps[j].op = "destroy") =>
      /\ ~(steps[i].obj = "grabber_client_" /\ steps[j].obj \in ChildSet)
      /\ ~(steps[i].obj = "receiver_" /\ steps[j].obj = "grabber_client_")

ForwardOps ==
  {"async_system_preferences_updated", "async_frontmost_application_changed",
   "async_input_source_changed"}

\* The operations that create, destroy or forward.
Mutations == {"create", "destroy"} \cup ForwardOps

\* The components that come and go with the session, the binding and the
\* connection, and the ones that live as long as the object.
Transient == {"receiver_", "grabber_client_"} \cup ChildSet
LongLived ==
  {"queue_", "version_monitor_", "grabber_alerts_monitor_", "console_user_id_monitor_"}

\* C6 as stated: every creation, destruction and forward is a step of the
\* queue worker.
C6_AllMutationsOnWorker ==
  \A i \in Steps : steps[i].op \in Mutations => steps[i].thread = "worker"

\* C6, amended: while the object lives the receiver, the client and the child
\* components are created and destroyed, and events are forwarded, only by
\* the queue worker; a collaborator thread only pushes; the constructor
\* thread creates only the queue and the three long-lived monitors; the body
\* of the destructor destroys only the queue, and what a late task left in a
\* member is destroyed with the members when the destructor ends; and the
\* steps of one action are all of one thread.
C6_TransientMutationsOnWorker ==
  /\ \A i \in Steps :
       /\ (steps[i].op \in ForwardOps \/
           (steps[i].op \in Mutations /\ steps[i].obj \in Transient))
            => \/ steps[i].thread = "worker"
               \/ (phase = "destroyed" /\ steps[i].thread = "destructor"
                                      /\ steps[i].op = "destroy")
       /\ steps[i].thread = "collaborator" => steps[i].op = "push_back"
       /\ (steps[i].thread = "constructor" /\ steps[i].op \in Mutations)
            => (steps[i].op = "create" /\ steps[i].obj \in LongLived)
       /\ (steps[i].thread = "destructor" /\ steps[i].op \in Mutations)
            => (steps[i].op = "destroy" /\ (steps[i].obj = "queue_" \/ phase = "destroyed"))
  /\ \A i, j \in Steps : steps[i].thread = steps[j].thread

\* C6 witness: the worker has just run a bound() task that destroyed one
\* client and created the next.
C6_Witness ==
  /\ last_task.kind = "receiver_bound"
  /\ \E i, j \in Steps :
       /\ steps[i].thread = "worker" /\ steps[i].op = "destroy"
       /\ steps[i].obj = "grabber_client_"
       /\ steps[j].thread = "worker" /\ steps[j].op = "create"
       /\ steps[j].obj = "grabber_client_"

\* C7: a session task with a uid other than getuid(), run in the Active state,
\* leaves the Child Group, the client and the receiver absent.
C7_MismatchWhileActiveDiscardsReceiver ==
  [][(Active /\ WorkerRuns("console_user_id_changed") /\ Head(queue_).arg # SelfUid)
       => (ChildGroupAbsent' /\ grabber_client_' = 0 /\ receiver_' = 0)]_vars

\* Presence and condition of the receiver, the client and the Child Group.
Abs == <<receiver_ # 0, receiver_cond, grabber_client_ # 0, client_cond, Present>>

\* C8: a session task with uid = getuid() run right after another such task
\* leaves presence and condition of receiver, client and Child Group as the
\* first one left them.
C8_SameSelfUidTwice ==
  [][(/\ last_task.kind = "console_user_id_changed"
      /\ last_task.arg = SelfUid
      /\ WorkerRuns("console_user_id_changed")
      /\ Head(queue_).arg = SelfUid)
       => Abs' = Abs]_vars

\* C8 witness: exactly two notifications were raised and both tasks have run;
\* the second is a self-owned session task that replaced a receiver, which
\* only the first, a self-owned session task too, can have created.
C8_Witness ==
  /\ raised = 2
  /\ queue_ = <<>>
  /\ last_task.kind = "console_user_id_changed"
  /\ last_task.arg = SelfUid
  /\ \E i \in Steps : steps[i].op = "destroy" /\ steps[i].obj = "receiver_"

\* The forward operation an observer notification maps to.
OpOf(kind) ==
  CASE kind = "system_preferences_changed" -> "async_system_preferences_updated"
    [] kind = "frontmost_application_changed" -> "async_frontmost_application_changed"
    [] kind = "input_source_changed" -> "async_input_source_changed"

Reserved(t) ==
  t.kind = "frontmost_application_changed" /\ t.arg \in {EventViewerDot, EventViewerDash}

\* C9: an observer task (not a reserved bundle) run while grabber_client_ is
\* set makes exactly one forward call, of the matching operation, on that
\* client, with the payload of the notification; run while grabber_client_ is
\* nullptr it makes none; and no other step ever makes a forward call.
C9_ForwardExactlyOnce ==
  [][/\ \A kind \in ObserverKinds :
          (WorkerRuns(kind) /\ ~Reserved(Head(queue_))) =>
            IF grabber_client_ # 0
            THEN forwards' = Append(forwards,
                                    [op |-> OpOf(kind), client |-> grabber_client_,
                                     cond |-> client_cond, arg |-> Head(queue_).arg,
                                     seq |-> Head(queue_).seq])
            ELSE forwards' = forwards
     /\ forwards' # forwards => \E kind \in ObserverKinds : WorkerRuns(kind)]_vars

\* C9 witness (scenario A): session = self, bound(), connected() and one
\* system_preferences_changed(P) were raised and run; the log holds the one
\* forward of P.
C9_Witness ==
  /\ raised = 4
  /\ queue_ = <<>>
  /\ Active
  /\ last_task.kind = "system_preferences_changed"
  /\ forwards = <<[op |-> "async_system_preferences_updated", client |-> grabber_client_,
                   cond |-> "connected", arg |-> last_task.arg,
                   seq |-> last_task.seq]>>

\* C10: once the closed() task of the client has run the Child Group is
\* absent, and no forward call is made on a client whose closed() has been
\* delivered and that has not reported connected() again.
C10_NoForwardAfterClosed ==
  /\ last_task.kind = "closed" => ChildGroupAbsent
  /\ \A i \in DOMAIN forwards : forwards[i].cond # "closed"

\* C11: a frontmost_application_changed task with one of the two reserved
\* bundle identifiers makes no forward call, and no forward call ever carries
\* one; with any other identifier, run while grabber_client_ is set, it makes
\* the async_frontmost_application_changed call with that identifier.
C11_ReservedBundlesNeverForwarded ==
  [][/\ WorkerRuns("frontmost_application_changed") =>
          IF Head(queue_).arg \in {EventViewerDot, EventViewerDash}
          THEN forwards' = forwards
          ELSE grabber_client_ # 0 =>
                 /\ Len(forwards') = Len(forwards) + 1
                 /\ forwards'[Len(forwards')].op = "async_frontmost_application_changed"
                 /\ forwards'[Len(forwards')].arg = Head(queue_).arg
     /\ \A i \in DOMAIN forwards' :
          forwards'[i].op = "async_frontmost_application_changed"
            => forwards'[i].arg \notin {EventViewerDot, EventViewerDash}]_vars

\* C11 witness (scenario C): the worker has just run a task for
\* "org.pqrs.Karabiner-EventViewer" while a connected client exists, and
\* nothing was forwarded.
C11_Witness ==
  /\ last_task.kind = "frontmost_application_changed"
  /\ last_task.arg = EventViewerDash
  /\ steps = <<>>
  /\ Active
  /\ forwards = <<>>

\* The worker has just run last_task: steps are the steps of that task.
TaskJustRun(kind) ==
  /\ last_task.kind = kind
  /\ steps # <<>>
  /\ steps[1].thread = "worker"

Count(op) == Cardinality({i \in Steps : steps[i].op = op})

\* C12: a task for alerts_changed with a non-empty alert set calls
\* launch_preferences exactly once, and no other action calls it at all.
C12_LaunchOncePerNonEmptyAlerts ==
  IF TaskJustRun("alerts_changed") /\ last_task.arg # <<>>
  THEN Count("launch_preferences") = 1
  ELSE Count("launch_preferences") = 0

\* C12 witness (scenario D): the task of alerts_changed([alert1]) has just
\* run, in a state where a client exists.
C12_Witness ==
  /\ TaskJustRun("alerts_changed")
  /\ last_task.arg = <<"alert1">>
  /\ Count("launch_preferences") = 1
  /\ grabber_client_ # 0

\* C13: the forward calls are made in the order in which the tasks of their
\* observer events were handed to the queue.
C13_ForwardsInSubmissionOrder ==
  \A i, j \in DOMAIN forwards : i < j => forwards[i].seq < forwards[j].seq

\* C13 witness: two events of different observers were forwarded.
C13_Witness ==
  /\ Len(forwards) = 2
  /\ forwards[1].op # forwards[2].op

\* C14: once the queue has been terminated, the client, the Child Group, the
\* receiver and the session user monitor are absent, and nothing that a
\* component raises reaches the object any more.
C14_DestructionComplete ==
  /\ phase \in {"terminated", "destroyed"} =>
       /\ grabber_client_ = 0
       /\ ChildGroupAbsent
       /\ receiver_ = 0
       /\ console_user_id_monitor_ = 0
  /\ phase # "crashed"

\* C15: a session task with uid = getuid() leaves a new, started and not yet
\* bound receiver, no client and no Child Group.
C15_SelfSessionLeavesAwaitingBind ==
  [][(WorkerRuns("console_user_id_changed") /\ Head(queue_).arg = SelfUid)
       => /\ receiver_' # 0
          /\ receiver_' # receiver_
          /\ receiver_cond' = "started"
          /\ grabber_client_' = 0
          /\ ChildGroupAbsent']_vars

\* C16: a bound() task leaves a client that is a new instance, the only live
\* one, started once and not connected, and no Child Group.
C16_BoundLeavesAwaitingConnect ==
  [][WorkerRuns("receiver_bound")
       => /\ grabber_client_' = next_id
          /\ grabber_client_' # grabber_client_
          /\ Live("grabber_client_")' = {grabber_client_'}
          /\ client_cond' = "started"
          /\ ChildGroupAbsent'
          /\ Cardinality({i \in DOMAIN steps' :
                            /\ steps'[i].op = "async_start"
                            /\ steps'[i].obj = "grabber_client_"
                            /\ steps'[i].id = grabber_client_'}) = 1]_vars

\* C16 witness: a bound() task has just run in a state with a client and a
\* Child Group; it destroyed both and started a new client.
C16_Witness ==
  /\ TaskJustRun("receiver_bound")
  /\ \E i, j \in Steps :
       /\ steps[i].op = "destroy" /\ steps[i].obj = "grabber_client_"
       /\ steps[j].op = "destroy" /\ steps[j].obj = "configuration_monitor_"
  /\ grabber_client_ # 0
  /\ client_cond = "started"
  /\ ChildGroupAbsent

\* C17: a bind_failed or closed task of the receiver leaves no client and no
\* Child Group, and does nothing to receiver_: same instance, nothing created,
\* nothing started.
C17_ReceiverFailureLeavesIdle ==
  [][(WorkerRuns("receiver_bind_failed") \/ WorkerRuns("receiver_closed"))
       => /\ grabber_client_' = 0
          /\ ChildGroupAbsent'
          /\ receiver_' = receiver_
          /\ Live("receiver_")' = Live("receiver_")
          /\ \A i \in DOMAIN steps' : steps'[i].obj # "receiver_"]_vars

\* C17 witness: a bind_failed task has just destroyed an existing client and
\* the receiver is still there.
C17_Witness ==
  /\ TaskJustRun("receiver_bind_failed")
  /\ \E i \in Steps : steps[i].op = "destroy" /\ steps[i].obj = "grabber_client_"
  /\ receiver_ # 0
  /\ grabber_client_ = 0

\* The child components the code starts with async_start.
Started ==
  {"system_preferences_monitor_", "frontmost_application_observer_",
   "input_source_observer_", "configuration_monitor_"}

\* C18: a connected() task makes one manual version check and one
\* async_connect_console_user_server call, and leaves six child components
\* that it created itself, each of the started ones started once.
C18_ConnectedRebuildsChildGroup ==
  TaskJustRun("connected") =>
    /\ Count("async_manual_check") = 1
    /\ Count("async_connect_console_user_server") = 1
    /\ \A m \in ChildSet :
         /\ Me[m] # 0
         /\ \E i \in Steps :
              steps[i].op = "create" /\ steps[i].obj = m /\ steps[i].id = Me[m]
    /\ \A m \in Started :
         Cardinality({i \in Steps : /\ steps[i].op = "async_start"
                                    /\ steps[i].obj = m
                                    /\ steps[i].id = Me[m]}) = 1

\* C19: a connect_failed or closed task of the client leaves no client and no
\* Child Group.
C19_ClientFailureLeavesIdle ==
  [][(WorkerRuns("connect_failed") \/ WorkerRuns("closed"))
       => (grabber_client_' = 0 /\ ChildGroupAbsent')]_vars

\* Exactly three notifications have been raised and the object is not being
\* destroyed: a self-owned session event, bound() of the receiver created for
\* it and, its task queued or already run, connected() of the client created
\* for that.
ChainRaised ==
  /\ raised = 3
  /\ phase = "running"
  /\ last_uid = SelfUid
  /\ receiver_ # 0
  /\ receiver_cond = "receiver_bound"
  /\ grabber_client_ # 0
  /\ \/ /\ Len(queue_) = 1
        /\ Head(queue_).kind = "connected"
        /\ Head(queue_).src = grabber_client_
     \/ /\ queue_ = <<>>
        /\ last_task.kind = "connected"
        /\ last_task.src = grabber_client_

====
